---- MODULE Spec2Model ----
(***************************************************************************)
(* A model of the fuzzy-inference teaching code of                         *)
(*   labo/fuzzy_systems_imraan/3_linguistic_variables_exercise.ipynb       *)
(*   labo/fuzzy_systems_imraan/4_fuzzy_rules.ipynb                         *)
(* FreeShapeMF, BaseLinguisticVariable and its two variants, FuzzyRule.    *)
(*                                                                         *)
(* Numbers.  Knots, domain samples and inputs are integers.  Membership    *)
(* degrees and activations are exact rationals <<n, d>> in lowest terms    *)
(* with d > 0.  The Python code computes in IEEE doubles: the model is the  *)
(* exact arithmetic those doubles approximate.  On the stored degrees the  *)
(* model draws (0, 1/2, 1) sums, differences and min/max are exact in      *)
(* doubles too; a quotient or product may differ from the rational by      *)
(* rounding.                                                               *)
(*                                                                         *)
(* Python's None is the empty sequence <<>>, a present value x is <<x>>.   *)
(* A call ends in ret: status "return" with its value, or status "raise"   *)
(* with the exception's name; state written before the raise stays.        *)
(***************************************************************************)
EXTENDS Integers, Sequences, FiniteSets, TLC

VARIABLES mf, lvs, rules, ret

vars == <<mf, lvs, rules, ret>>

\* ------------------------------------------------------------- bounds
\* most knots of a membership function under test
MaxKnots == 3
\* knots of a membership function under test lie in 0..KnotMax
KnotMax == 3
\* inputs handed to a rule are 0..MaxInput
MaxInput == 1
\* most antecedent clauses of a rule
MaxClauses == 2
\* the small trapezoid variables range over 0..TMax
TMax == 3
\* most transitions of a small trapezoid variable
MaxTransitions == 6
\* most membership functions handed to an unconstrained variable
MaxFunctions == 3

\* ---------------------------------------------------------- rationals
None == <<>>

Some(x) == <<x>>

Abs(n) == IF n < 0 THEN -n ELSE n

RECURSIVE GCD(_, _)
GCD(a, b) == IF b = 0 THEN a ELSE GCD(b, a % b)

\* n/d in lowest terms with a positive denominator (d # 0)
Rat(n, d) ==
  LET g == GCD(Abs(n), Abs(d))
      s == IF d < 0 THEN -1 ELSE 1
  IN  <<(s * n) \div g, (s * d) \div g>>

Zero == Rat(0, 1)

Half == Rat(1, 2)

One == Rat(1, 1)

RAdd(a, b) == Rat(a[1] * b[2] + b[1] * a[2], a[2] * b[2])

RSub(a, b) == Rat(a[1] * b[2] - b[1] * a[2], a[2] * b[2])

RMul(a, b) == Rat(a[1] * b[1], a[2] * b[2])

RLe(a, b) == a[1] * b[2] <= b[1] * a[2]

RLt(a, b) == a[1] * b[2] < b[1] * a[2]

RMin(a, b) == IF RLe(a, b) THEN a ELSE b

RMax(a, b) == IF RLe(a, b) THEN b ELSE a

InUnit(a) == RLe(Zero, a) /\ RLe(a, One)

Between(a, lo, hi) == RLe(RMin(lo, hi), a) /\ RLe(a, RMax(lo, hi))

Return(op, v) == [op |-> op, status |-> "return", value |-> v]

Raise(op, e) == [op |-> op, status |-> "raise", value |-> e]

NoCall == [op |-> "none", status |-> "none", value |-> "none"]

\* ------------------------------------------------------- FreeShapeMF
\* FreeShapeMF.__init__: the two asserts; TRUE when construction succeeds
FreeShapeMF_init_ok(input_values, membership_values) ==
  /\ Len(input_values) = Len(membership_values)
  /\ \A i \in 2..Len(input_values) : input_values[i-1] <= input_values[i]

FreeShapeMF(input_values, membership_values) ==
  [input_values |-> input_values, membership_values |-> membership_values]

\* the while loop of __call__ going on while value >= input_values[i]
RECURSIVE KnotSearch_NonStrict(_, _, _)
KnotSearch_NonStrict(input_values, value, i) ==
  IF i > Len(input_values) THEN i
  ELSE IF value >= input_values[i]
       THEN KnotSearch_NonStrict(input_values, value, i + 1)
  ELSE i

\* the while loop of __call__, 1-based: i = 1 in Python is index 2 here.
\* Stops at the first index whose knot is not below value; an index past the
\* end is the IndexError of the read input_values[i].
RECURSIVE KnotSearch(_, _, _)
KnotSearch(input_values, value, i) ==
  IF i > Len(input_values) THEN i
  ELSE IF value > input_values[i] THEN KnotSearch(input_values, value, i + 1)
  ELSE i

\* __call__ with its two boundary tests in the other order
MFCall_LastKnotFirst(f, value) ==
  LET iv == f.input_values
      mv == f.membership_values
      n  == Len(iv)
  IN  IF n = 0 THEN Raise("__call__", "IndexError")
      ELSE IF value >= iv[n] THEN Return("__call__", mv[n])
      ELSE IF value <= iv[1] THEN Return("__call__", mv[1])
      ELSE LET i == KnotSearch(iv, value, 2)
               i_p == Rat(value - iv[i-1], iv[i] - iv[i-1])
           IN  Return("__call__",
                      RAdd(RMul(i_p, RSub(mv[i], mv[i-1])), mv[i-1]))

\* __call__ interpolating from the right knot's value instead of the left's
MFCall_RightBase(f, value) ==
  LET iv == f.input_values
      mv == f.membership_values
      n  == Len(iv)
  IN  IF n = 0 THEN Raise("__call__", "IndexError")
      ELSE IF value <= iv[1] THEN Return("__call__", mv[1])
      ELSE IF value >= iv[n] THEN Return("__call__", mv[n])
      ELSE LET i == KnotSearch(iv, value, 2)
               i_p == Rat(value - iv[i-1], iv[i] - iv[i-1])
           IN  Return("__call__",
                      RAdd(RMul(i_p, RSub(mv[i], mv[i-1])), mv[i]))

\* __call__ returning the left knot's value inside a segment (no interpolation)
MFCall_Step(f, value) ==
  LET iv == f.input_values
      mv == f.membership_values
      n  == Len(iv)
  IN  IF n = 0 THEN Raise("__call__", "IndexError")
      ELSE IF value <= iv[1] THEN Return("__call__", mv[1])
      ELSE IF value >= iv[n] THEN Return("__call__", mv[n])
      ELSE Return("__call__", mv[KnotSearch(iv, value, 2) - 1])

\* FreeShapeMF.__call__: the outcome [status, value] of evaluating at value
MFCall(f, value) ==
  LET iv == f.input_values
      mv == f.membership_values
      n  == Len(iv)
  IN  IF n = 0 THEN Raise("__call__", "IndexError")
      ELSE IF value <= iv[1] THEN Return("__call__", mv[1])
      ELSE IF value >= iv[n] THEN Return("__call__", mv[n])
      ELSE LET i == KnotSearch(iv, value, 2)
           IN  IF i > n THEN Raise("__call__", "IndexError")
               ELSE IF iv[i] - iv[i-1] = 0
                    THEN Raise("__call__", "ZeroDivisionError")
               ELSE LET i_p == Rat(value - iv[i-1], iv[i] - iv[i-1])
                    IN  Return("__call__",
                               RAdd(RMul(i_p, RSub(mv[i], mv[i-1])), mv[i-1]))

\* ------------------------------------------- BaseLinguisticVariable
\* np.arange(v_min, v_max, resolution) for integer arguments: right-open
Arange(v_min, v_max, resolution) ==
  LET n == IF v_max <= v_min THEN 0
           ELSE (v_max - v_min + resolution - 1) \div resolution
  IN  [i \in 1..n |-> v_min + (i - 1) * resolution]

Range(s) == {s[i] : i \in DOMAIN s}

SeqMin(s) == CHOOSE m \in Range(s) : \A y \in Range(s) : m <= y

SeqMax(s) == CHOOSE m \in Range(s) : \A y \in Range(s) : y <= m

\* a Python dict built by {names[i]: items[i] for i in ...}: a later
\* duplicate key overwrites an earlier one
DictOf(names, items) ==
  [k \in Range(names) |->
     items[CHOOSE i \in DOMAIN names :
             /\ names[i] = k
             /\ \A j \in DOMAIN names : names[j] = k => j <= i]]

EmptyDict == <<>>

\* fuzzify evaluating every membership function at the previous input_value
\* (0 when there is none) instead of the new one
Fuzzify_StaleInput(v, value) ==
  LET names   == DOMAIN v.membership_functions
      old     == IF v.input_value = None THEN 0 ELSE v.input_value[1]
      mvals   == [nm \in names |-> MFCall(v.membership_functions[nm], old).value]
  IN  [lv  |-> [v EXCEPT !.input_value = Some(value),
                         !.membership_values = mvals],
       ret |-> Return("fuzzify", mvals)]

\* BaseLinguisticVariable.fuzzify: the variable after the call and the
\* call's outcome.  input_value is written first; a membership function
\* that raises ends the loop with the entries written so far (taken here in
\* level_names order).
Fuzzify(v, value) ==
  LET names   == DOMAIN v.membership_functions
      out(nm) == MFCall(v.membership_functions[nm], value)
      bad     == {nm \in names : out(nm).status = "raise"}
      mvals   == [nm \in names \ bad |-> out(nm).value]
  IN  [lv  |-> [v EXCEPT !.input_value = Some(value),
                         !.membership_values = mvals],
       ret |-> IF bad = {} THEN Return("fuzzify", mvals)
               ELSE Raise("fuzzify", out(CHOOSE nm \in bad : TRUE).value)]

\* BaseLinguisticVariable.get_linguistic_value: the assert, then
\* FreeShapeMF.apply_to (map of __call__) over the domain samples
GetLinguisticValue(v, name) ==
  IF \A i \in DOMAIN v.level_names : v.level_names[i] # name
  THEN Raise("get_linguistic_value", "AssertionError")
  ELSE IF name \notin DOMAIN v.membership_functions
  THEN Raise("get_linguistic_value", "KeyError")
  ELSE LET f      == v.membership_functions[name]
           out(i) == MFCall(f, v.input_values[i])
       IN  IF \E i \in DOMAIN v.input_values : out(i).status = "raise"
           THEN Raise("get_linguistic_value",
                      out(CHOOSE i \in DOMAIN v.input_values :
                            out(i).status = "raise").value)
           ELSE Return("get_linguistic_value",
                       [i \in DOMAIN v.input_values |-> out(i).value])

\* ---------------------------------- NonConstrainedLinguisticVariable
\* A level_names argument: [kind |-> "none"], [kind |-> "str", s |-> stem]
\* or [kind |-> "list", l |-> <<names>>].
NamesNone == [kind |-> "none", s |-> "", l |-> <<>>]

NamesStr(stem) == [kind |-> "str", s |-> stem, l |-> <<>>]

NamesList(l) == [kind |-> "list", s |-> "", l |-> l]

\* the first two steps shared by __set_membership_functions and
\* __set_level_names: None becomes 'V_level_', a str becomes a one-item list
NamesAsList(level_names) ==
  IF level_names.kind = "none" THEN <<"V_level_">>
  ELSE IF level_names.kind = "str" THEN <<level_names.s>>
  ELSE level_names.l

\* str.endswith('_level_') on the stems the model uses
EndsWithLevel(s) == s \in {"V_level_", "T_level_"}

\* the stem after "if not endswith('_level_'): level_names[0] += '_level_'"
Stem(s) == IF EndsWithLevel(s) THEN s ELSE s \o "_level_"

\* [stem + str(i) for i in np.arange(n)]
GeneratedNames(stem, n) == [i \in 1..n |-> Stem(stem) \o ToString(i - 1)]

\* the attributes an __init__ leaves on the object; class is the variant,
\* transitions is <<>> on the variant that has no such attribute
LVRecord(class, name, v_min, v_max, res, transitions, level_names, mfs) ==
  [class |-> class, name |-> name, v_min |-> v_min, v_max |-> v_max,
   resolution |-> res, transitions |-> transitions,
   input_values |-> Arange(v_min, v_max, res),
   level_names |-> level_names,
   membership_functions |-> mfs,
   input_value |-> None,
   membership_values |-> EmptyDict]

\* NonConstrainedLinguisticVariable.__set_membership_functions: a one-item
\* list of names reads self.membership_functions before it is assigned
NonConstrained_set_membership_functions(membership_functions, level_names) ==
  LET l == NamesAsList(level_names)
  IN  IF Len(l) = 1 THEN Raise("__init__", "AttributeError")
      ELSE IF Len(l) # Len(membership_functions)
      THEN Raise("__init__", "AssertionError")
      ELSE Return("__init__", [level_names |-> l,
                               membership_functions |->
                                 DictOf(l, membership_functions)])

\* NonConstrainedLinguisticVariable.__init__
\* (mfs is the membership_functions argument; min() of an empty list raises)
NonConstrainedLinguisticVariable(name, v_min, v_max, mfs, level_names, res) ==
  IF ~(v_max > v_min) THEN Raise("__init__", "AssertionError")
  ELSE IF mfs = <<>> \/ \E i \in DOMAIN mfs : mfs[i].input_values = <<>>
  THEN Raise("__init__", "ValueError")
  ELSE IF \E i \in DOMAIN mfs : SeqMin(mfs[i].input_values) < v_min
  THEN Raise("__init__", "AssertionError")
  ELSE IF \E i \in DOMAIN mfs : SeqMax(mfs[i].input_values) > v_max
  THEN Raise("__init__", "AssertionError")
  ELSE LET r == NonConstrained_set_membership_functions(mfs, level_names)
       IN  IF r.status = "raise" THEN r
           ELSE Return("__init__",
                       LVRecord("NonConstrainedLinguisticVariable", name,
                                v_min, v_max, res, <<>>, r.value.level_names,
                                r.value.membership_functions))

\* ------------------------------------------------ LinguisticVariable
\* LinguisticVariable.__set_transitions: TRUE when every assert passes
LV_set_transitions_ok(v_min, v_max, transitions) ==
  LET n_transitions == Len(transitions)
  IN  /\ n_transitions >= 2
      /\ n_transitions % 2 = 0
      /\ v_min <= transitions[1]
      /\ transitions[n_transitions] <= v_max
      /\ \A i \in 2..n_transitions : transitions[i-1] <= transitions[i]

\* __set_level_names counting one name per pair of transitions
LV_set_level_names_NoExtra(transitions, level_names) ==
  LET l == NamesAsList(level_names)
      n == Len(transitions) \div 2
      g == IF Len(l) = 1 THEN GeneratedNames(l[1], n) ELSE l
  IN  IF Len(g) # n THEN Raise("__init__", "AssertionError")
      ELSE Return("__init__", g)

\* LinguisticVariable.__set_level_names, given the stored transitions
LV_set_level_names(transitions, level_names) ==
  LET l == NamesAsList(level_names)
      n == (Len(transitions) \div 2) + 1
      g == IF Len(l) = 1 THEN GeneratedNames(l[1], n) ELSE l
  IN  IF Len(g) # n THEN Raise("__init__", "AssertionError")
      ELSE Return("__init__", g)

\* The part of __init__ the notebook leaves to be completed, after the
\* shared-transition pattern: value 0 falls over t[0..1], value k rises over
\* t[2k-2..2k-1], value j between them is the trapezoid over t[2j-2..2j+1].
TrapezoidMF(transitions, j) ==
  LET k == Len(transitions) \div 2
      t(i) == transitions[i + 1]
  IN  IF j = 0 THEN FreeShapeMF(<<t(0), t(1)>>, <<One, Zero>>)
      ELSE IF j = k THEN FreeShapeMF(<<t(2*k - 2), t(2*k - 1)>>, <<Zero, One>>)
      ELSE FreeShapeMF(<<t(2*j - 2), t(2*j - 1), t(2*j), t(2*j + 1)>>,
                       <<Zero, One, One, Zero>>)

TrapezoidMFs(transitions) ==
  [i \in 1..((Len(transitions) \div 2) + 1) |-> TrapezoidMF(transitions, i - 1)]

\* LinguisticVariable.__init__
LinguisticVariable(name, v_min, v_max, transitions, level_names, res) ==
  IF ~(v_min < v_max) THEN Raise("__init__", "AssertionError")
  ELSE IF ~LV_set_transitions_ok(v_min, v_max, transitions)
  THEN Raise("__init__", "AssertionError")
  ELSE LET r == LV_set_level_names(transitions, level_names)
       IN  IF r.status = "raise" THEN r
           ELSE Return("__init__",
                       LVRecord("LinguisticVariable", name, v_min, v_max, res,
                                transitions, r.value,
                                DictOf(r.value, TrapezoidMFs(transitions))))

\* --------------------------------------------------------- FuzzyRule
RECURSIVE SeqSum(_)
SeqSum(x) == IF x = <<>> THEN Zero ELSE RAdd(Head(x), SeqSum(Tail(x)))

RECURSIVE SeqProd(_)
SeqProd(x) == IF x = <<>> THEN One ELSE RMul(Head(x), SeqProd(Tail(x)))

\* np.min / np.max of a non-empty list
RECURSIVE NpMin(_)
NpMin(x) == IF Len(x) = 1 THEN x[1] ELSE RMin(Head(x), NpMin(Tail(x)))

RECURSIVE NpMax(_)
NpMax(x) == IF Len(x) = 1 THEN x[1] ELSE RMax(Head(x), NpMax(Tail(x)))

Operations ==
  {"AND_min", "AND_prod", "AND_boundprod", "OR_max", "OR_probsum", "OR_boundsum"}

Implications == {"MIN", "PROD"}

\* __fuzzy_operations with the bounded product and the bounded sum clipped
\* at the wrong end (np.min for np.max and the reverse)
FuzzyOperation_WrongClip(operation, x) ==
  CASE operation = "AND_min" ->
         IF x = <<>> THEN Raise("compute_antecedent_activation", "ValueError")
         ELSE Return("compute_antecedent_activation", NpMin(x))
    [] operation = "AND_prod" ->
         Return("compute_antecedent_activation", SeqProd(x))
    [] operation = "AND_boundprod" ->
         Return("compute_antecedent_activation",
                NpMin(<<Zero, RSub(SeqSum(x), One)>>))
    [] operation = "OR_max" ->
         IF x = <<>> THEN Raise("compute_antecedent_activation", "ValueError")
         ELSE Return("compute_antecedent_activation", NpMax(x))
    [] operation = "OR_probsum" ->
         Return("compute_antecedent_activation", RSub(SeqSum(x), SeqProd(x)))
    [] operation = "OR_boundsum" ->
         Return("compute_antecedent_activation", NpMax(<<One, SeqSum(x)>>))

\* FuzzyRule.__fuzzy_operations[operation](x).  np.min and np.max of an
\* empty list raise ValueError; np.sum and np.prod of it are 0 and 1.
FuzzyOperation(operation, x) ==
  CASE operation = "AND_min" ->
         IF x = <<>> THEN Raise("compute_antecedent_activation", "ValueError")
         ELSE Return("compute_antecedent_activation", NpMin(x))
    [] operation = "AND_prod" ->
         Return("compute_antecedent_activation", SeqProd(x))
    [] operation = "AND_boundprod" ->
         Return("compute_antecedent_activation",
                NpMax(<<Zero, RSub(SeqSum(x), One)>>))
    [] operation = "OR_max" ->
         IF x = <<>> THEN Raise("compute_antecedent_activation", "ValueError")
         ELSE Return("compute_antecedent_activation", NpMax(x))
    [] operation = "OR_probsum" ->
         Return("compute_antecedent_activation", RSub(SeqSum(x), SeqProd(x)))
    [] operation = "OR_boundsum" ->
         Return("compute_antecedent_activation", NpMin(<<One, SeqSum(x)>>))

\* __fuzzy_implication with np.maximum in the place of np.minimum
FuzzyImplication_Maximum(implication, activation, curve) ==
  IF implication = "MIN"
  THEN Return("compute_consequent_activation",
              [i \in DOMAIN curve |-> RMax(activation, curve[i])])
  ELSE Raise("compute_consequent_activation", "TypeError")

\* FuzzyRule.__fuzzy_implication[implication](activation, curve):
\* np.minimum is elementwise; np.prod takes its second argument as the axis
\* and raises on a list
FuzzyImplication(implication, activation, curve) ==
  IF implication = "MIN"
  THEN Return("compute_consequent_activation",
              [i \in DOMAIN curve |-> RMin(activation, curve[i])])
  ELSE Raise("compute_consequent_activation", "TypeError")

\* FuzzyRule.__init__; a clause is [var |-> key in lvs, value |-> name]
FuzzyRule(operation, antecedent, consequent, implication, vs) ==
  IF operation \notin Operations \/ implication \notin Implications
  THEN Raise("__init__", "AssertionError")
  ELSE Return("__init__",
              [operation |-> operation,
               antecedent |-> antecedent,
               consequent |-> consequent,
               implication |-> implication,
               antecedent_activation |-> Zero,
               consequent_activation |->
                 [i \in DOMAIN vs[consequent.var].input_values |-> Zero]])

\* input_values.get(name)
DictGet(d, k) == IF k \in DOMAIN d THEN Some(d[k]) ELSE None

\* "if val:" is false for None and for a numeric 0
Truthy(val) == val # None /\ val[1] # 0

\* The for loop of compute_antecedent_activation keeps a state st:
\* lvs, the variables as fuzzified so far; temp, the list of degrees; exc,
\* the exception that ended the loop, if any.
LoopStart(vs) == [lvs |-> vs, temp |-> <<>>, exc |-> None]

\* the loop body after "if val:" for clause pair, fz being the outcome of
\* pair[0].fuzzify(val): temp.append(membership_values[pair[1]])
Collect(pair, st, fz) ==
  [lvs  |-> [st.lvs EXCEPT ![pair.var] = fz.lv],
   temp |-> IF fz.ret.status = "return" /\ pair.value \in DOMAIN fz.ret.value
            THEN Append(st.temp, fz.ret.value[pair.value])
            ELSE st.temp,
   exc  |-> IF fz.ret.status = "raise" THEN Some(fz.ret.value)
            ELSE IF pair.value \notin DOMAIN fz.ret.value THEN Some("KeyError")
            ELSE None]

\* the loop body fuzzifying the variable of a skipped clause at 0
AntecedentStep_FuzzifySkipped(pair, input_values, st, val) ==
  IF Truthy(val) THEN Collect(pair, st, Fuzzify(st.lvs[pair.var], val[1]))
  ELSE [st EXCEPT !.lvs[pair.var] = Fuzzify(st.lvs[pair.var], 0).lv]

\* one pass of the loop body: val = input_values.get(pair[0].name); if val: ...
AntecedentStep(pair, input_values, st, val) ==
  IF Truthy(val) THEN Collect(pair, st, Fuzzify(st.lvs[pair.var], val[1]))
  ELSE st

\* the loop from clause i on
RECURSIVE AntecedentLoop(_, _, _, _)
AntecedentLoop(antecedent, input_values, st, i) ==
  IF i > Len(antecedent) \/ st.exc # None THEN st
  ELSE AntecedentLoop(
         antecedent, input_values,
         AntecedentStep(antecedent[i], input_values, st,
                        DictGet(input_values, st.lvs[antecedent[i].var].name)),
         i + 1)

\* the assignment storing, and returning, the mean of the previous
\* activation and the reduction
ReduceCollected_Blend(rule, st, red) ==
  [rule |-> IF red.status = "return"
            THEN [rule EXCEPT !.antecedent_activation =
                    RMul(Half, RAdd(rule.antecedent_activation, red.value))]
            ELSE rule,
   lvs  |-> st.lvs,
   ret  |-> IF red.status = "return"
            THEN Return(red.op,
                        RMul(Half, RAdd(rule.antecedent_activation, red.value)))
            ELSE red]

\* lines 132-133 after the loop ended in st: the reduction of temp is
\* assigned and returned; an exception leaves antecedent_activation as it was
ReduceCollected(rule, st, red) ==
  [rule |-> IF red.status = "return"
            THEN [rule EXCEPT !.antecedent_activation = red.value]
            ELSE rule,
   lvs  |-> st.lvs,
   ret  |-> red]

ReduceLoop(rule, st) ==
  ReduceCollected(rule, st,
                  IF st.exc # None
                  THEN Raise("compute_antecedent_activation", st.exc[1])
                  ELSE FuzzyOperation(rule.operation, st.temp))

\* FuzzyRule.compute_antecedent_activation: rule and variables after the
\* call, and the outcome
ComputeAntecedentActivation(rule, vs, input_values) ==
  ReduceLoop(rule, AntecedentLoop(rule.antecedent, input_values, LoopStart(vs), 1))

\* FuzzyRule.compute_consequent_activation: consequent_activation is first
\* assigned the raw curve, then the implication's result
ComputeConsequentActivation(rule, vs) ==
  LET curve == GetLinguisticValue(vs[rule.consequent.var], rule.consequent.value)
      imp   == FuzzyImplication(rule.implication, rule.antecedent_activation,
                                curve.value)
  IN  IF curve.status = "raise"
      THEN [rule |-> rule,
            ret  |-> Raise("compute_consequent_activation", curve.value)]
      ELSE IF imp.status = "raise"
      THEN [rule |-> [rule EXCEPT !.consequent_activation = curve.value],
            ret  |-> imp]
      ELSE [rule |-> [rule EXCEPT !.consequent_activation = imp.value],
            ret  |-> imp]

\* ------------------------------------------------------------ calls
\* what ret holds after a call on self with args
Called(self, args, outcome) ==
  [op |-> outcome.op, self |-> self, args |-> args,
   status |-> outcome.status, value |-> outcome.value]

NotCalled == Called("none", None, NoCall)

\* sequences over S of length lo..hi
SeqsOf(S, lo, hi) == UNION {[1..n -> S] : n \in lo..hi}

\* ------------------------------------ a membership function on its own
Degrees == {Zero, Half, One}

\* every FreeShapeMF(knots, values) whose construction succeeds
ConstructedMFs ==
  {FreeShapeMF(k, m) :
     <<k, m>> \in {km \in SeqsOf(0..KnotMax, 0, MaxKnots)
                          \X SeqsOf(Degrees, 0, MaxKnots) :
                     FreeShapeMF_init_ok(km[1], km[2])}}

InitMF ==
  /\ mf \in ConstructedMFs
  /\ lvs = <<>>
  /\ rules = <<>>
  /\ ret = NotCalled

\* mf(value)
Call ==
  \E value \in (0 - 1)..(KnotMax + 1) :
    /\ mf # None
    /\ ret' = Called("mf", value, MFCall(mf, value))
    /\ UNCHANGED <<mf, lvs, rules>>

NextMF == Call

SpecMF == InitMF /\ [][NextMF]_vars

\* --------------------------------------- a linguistic variable on its own
\* the notebook's test cell
Speed ==
  LinguisticVariable("Speed", 0, 120, <<20, 40, 60, 80>>,
                     NamesList(<<"slow", "normal", "fast">>), 1)

LevelNameArgs ==
  {NamesNone, NamesStr("T"), NamesStr("T_level_"),
   NamesList(<<"low", "high">>), NamesList(<<"low", "mid", "high">>)}

\* small trapezoid variables: every transitions list and names argument
\* whose construction succeeds
SmallTrapezoids ==
  {LinguisticVariable("v", 0, TMax, a[1], a[2], 1).value :
     a \in {b \in SeqsOf(0..TMax, 0, MaxTransitions) \X LevelNameArgs :
              LinguisticVariable("v", 0, TMax, b[1], b[2], 1).status = "return"}}

\* the notebook's unconstrained example, cut down to piecewise-linear shapes
SmallMFs ==
  <<FreeShapeMF(<<1, 2>>, <<One, Zero>>),
    FreeShapeMF(<<0, 1, 1, 3>>, <<Zero, Half, One, Zero>>)>>

SmallNonConstrained ==
  {NonConstrainedLinguisticVariable("v", 0, TMax, SmallMFs, names, 1).value :
     names \in {a \in LevelNameArgs :
                  NonConstrainedLinguisticVariable("v", 0, TMax, SmallMFs, a, 1
                                                  ).status = "return"}}

ConstructedLVs ==
  (IF Speed.status = "return" THEN {Speed.value} ELSE {})
    \cup SmallTrapezoids \cup SmallNonConstrained

InitLV ==
  /\ mf = None
  /\ \E v \in ConstructedLVs : lvs = [n \in {v.name} |-> v]
  /\ rules = <<>>
  /\ ret = NotCalled

\* a variable is fuzzified over its whole domain and one step beyond each end
FuzzifyInputs(v) == (v.v_min - 1)..(v.v_max + 1)

\* v.fuzzify(value)
FuzzifyCall ==
  \E n \in DOMAIN lvs :
    \E value \in FuzzifyInputs(lvs[n]) :
      \E r \in {Fuzzify(lvs[n], value)} :
          /\ lvs' = [lvs EXCEPT ![n] = r.lv]
          /\ ret' = Called(n, value, r.ret)
          /\ UNCHANGED <<mf, rules>>

\* v.get_linguistic_value(name)
GetLinguisticValueCall ==
  \E n \in DOMAIN lvs :
    \E name \in DOMAIN lvs[n].membership_functions \cup {"unknown"} :
      /\ ret' = Called(n, name, GetLinguisticValue(lvs[n], name))
      /\ UNCHANGED <<mf, lvs, rules>>

NextLV == FuzzifyCall \/ GetLinguisticValueCall

SpecLV == InitLV /\ [][NextLV]_vars

\* ------------------------------------------------------ the rule world
\* The tourists example of 4_fuzzy_rules.ipynb on a domain of 0..4:
\* two antecedent variables, one of each variant, and the consequent.
temperature ==
  LinguisticVariable("temperature", 0, 4, <<0, 2>>,
                     NamesList(<<"cold", "hot">>), 1).value

sunshine ==
  NonConstrainedLinguisticVariable(
    "sunshine", 0, 4,
    <<FreeShapeMF(<<0, 4>>, <<One, Zero>>), FreeShapeMF(<<0, 4>>, <<Half, One>>)>>,
    NamesList(<<"cloudy", "sunny">>), 1).value

tourists ==
  LinguisticVariable("tourists", 0, 4, <<0, 2, 2, 4>>,
                     NamesList(<<"low", "medium", "high">>), 1).value

World ==
  [n \in {"temperature", "sunshine", "tourists"} |->
     CASE n = "temperature" -> temperature
       [] n = "sunshine" -> sunshine
       [] n = "tourists" -> tourists]

Clause(var, value) == [var |-> var, value |-> value]

\* the clauses rules are built from, in the order a longer antecedent
\* takes them
ClausePool ==
  <<Clause("temperature", "hot"), Clause("sunshine", "sunny"),
    Clause("temperature", "cold"), Clause("sunshine", "cloudy")>>

Antecedents ==
  {SubSeq(ClausePool, a, b) :
     <<a, b>> \in {ab \in (1..2) \X (1..Len(ClausePool)) :
                     ab[1] <= ab[2] /\ ab[2] - ab[1] < MaxClauses}}

\* fr_1 = FuzzyRule(operation, antecedent, (tourists, 'high'), implication)
\* for every choice the constructor accepts
ConstructedRules ==
  {FuzzyRule(c[1], c[2], Clause("tourists", "high"), c[3], World).value :
     c \in {d \in (Operations \cup {"XOR"}) \X Antecedents
                    \X (Implications \cup {"MAX"}) :
              FuzzyRule(d[1], d[2], Clause("tourists", "high"), d[3], World
                       ).status = "return"}}

\* the input mappings: any subset of the antecedent variables' names (and
\* of a name no variable has) to inputs in 0..MaxInput
InputMaps ==
  UNION {[K -> 0..MaxInput] : K \in SUBSET {"temperature", "sunshine"}}

Init ==
  /\ mf = None
  /\ lvs = World
  /\ \E r \in ConstructedRules : rules = [id \in {"fr_1"} |-> r]
  /\ ret = NotCalled

\* fr.compute_antecedent_activation(input_values)
ComputeAntecedentActivationCall ==
  \E id \in DOMAIN rules :
    \E input_values \in InputMaps :
      \E r \in {ComputeAntecedentActivation(rules[id], lvs, input_values)} :
          /\ rules' = [rules EXCEPT ![id] = r.rule]
          /\ lvs' = r.lvs
          /\ ret' = Called(id, input_values, r.ret)
          /\ UNCHANGED mf

\* fr.compute_consequent_activation()
ComputeConsequentActivationCall ==
  \E id \in DOMAIN rules :
    \E r \in {ComputeConsequentActivation(rules[id], lvs)} :
        /\ rules' = [rules EXCEPT ![id] = r.rule]
        /\ ret' = Called(id, None, r.ret)
        /\ UNCHANGED <<mf, lvs>>

Next ==
  \/ ComputeAntecedentActivationCall
  \/ ComputeConsequentActivationCall

Spec == Init /\ [][Next]_vars

\* ------------------------------------- two rules sharing variables
\* fr_1 is the AND_min / MIN rule on temperature and sunshine, fr_2 the
\* OR_max / PROD rule on sunshine alone, both with the consequent of tourists
SharedRules ==
  {rs \in [{"fr_1", "fr_2"} -> ConstructedRules] :
     /\ rs["fr_1"].antecedent = SubSeq(ClausePool, 1, 2)
     /\ rs["fr_1"].operation = "AND_min"
     /\ rs["fr_1"].implication = "MIN"
     /\ rs["fr_2"].antecedent = SubSeq(ClausePool, 2, 2)
     /\ rs["fr_2"].operation = "OR_max"
     /\ rs["fr_2"].implication = "PROD"}

InitShared ==
  /\ mf = None
  /\ lvs = World
  /\ rules \in SharedRules
  /\ ret = NotCalled

\* v.fuzzify(value) by another user of a variable of the rules: of sunshine,
\* which both antecedents share, or of tourists, the consequent variable
\* (temperature is fuzzified by fr_1 alone)
FuzzifyVariableCall ==
  \E n \in {"sunshine", "tourists"} :
    \E value \in 0..MaxInput :
      \E r \in {Fuzzify(lvs[n], value)} :
          /\ lvs' = [lvs EXCEPT ![n] = r.lv]
          /\ ret' = Called(n, value, r.ret)
          /\ UNCHANGED <<mf, rules>>

NextShared ==
  \/ FuzzifyVariableCall
  \/ ComputeAntecedentActivationCall
  \/ ComputeConsequentActivationCall

SpecShared == InitShared /\ [][NextShared]_vars

\* ------------------------- constructing an unconstrained variable
\* membership functions inside the domain 0..TMax
MFPool ==
  {SmallMFs[1], SmallMFs[2], FreeShapeMF(<<0, TMax>>, <<Zero, One>>)}

\* level_names arguments: none, a stem, and lists of one to three names
\* (one of them with a repeated name)
NonConstrainedNameArgs ==
  LevelNameArgs \cup {NamesList(<<"only">>), NamesList(<<"low", "low">>)}

InitNC ==
  /\ mf = None
  /\ lvs = <<>>
  /\ rules = <<>>
  /\ ret = NotCalled

\* NonConstrainedLinguisticVariable('v', 0, TMax, mfs, level_names, 1): the
\* new object is the value of the call
NonConstrainedInitCall ==
  \E mfs \in SeqsOf(MFPool, 0, MaxFunctions) :
    \E level_names \in NonConstrainedNameArgs :
      \E r \in {NonConstrainedLinguisticVariable("v", 0, TMax, mfs, level_names, 1)} :
        /\ ret' = Called("NonConstrainedLinguisticVariable",
                         [membership_functions |-> mfs, level_names |-> level_names],
                         r)
        /\ UNCHANGED <<mf, lvs, rules>>

NextNC == NonConstrainedInitCall

SpecNC == InitNC /\ [][NextNC]_vars

\* ------------------------------------------ a reduction on its own
\* the degrees lists are drawn from: 0, 0.3, 0.5, 0.6, 0.7 and 1
Tenths == {Rat(k, 10) : k \in {0, 3, 5, 6, 7, 10}}

InitOp ==
  /\ mf = None
  /\ lvs = <<>>
  /\ rules = <<>>
  /\ ret = NotCalled

\* __fuzzy_operations[operation](x) on a list x of collected degrees
ReduceCall ==
  \E operation \in Operations :
    \E x \in SeqsOf(Tenths, 0, MaxClauses) :
      /\ ret' = Called(operation, x, FuzzyOperation(operation, x))
      /\ UNCHANGED <<mf, lvs, rules>>

NextOp == ReduceCall

SpecOp == InitOp /\ [][NextOp]_vars

\* =================================================================
\* Properties of a membership function on its own (SpecMF)
\* =================================================================
\* the last call was mf(x) on a function with at least one knot
Evaluated == ret.op = "__call__" /\ Len(mf.input_values) >= 1

LastKnot == mf.input_values[Len(mf.input_values)]

\* C7 as stated: evaluate(x) is values[0] for every x at or below knots[0]
\* and values[-1] for every x at or above knots[-1], duplicate knots allowed.
C7_Original ==
  Evaluated =>
    /\ ret.status = "return"
    /\ ret.args <= mf.input_values[1] => ret.value = mf.membership_values[1]
    /\ ret.args >= LastKnot =>
         ret.value = mf.membership_values[Len(mf.membership_values)]

\* C7 amended: evaluate(x) is values[0] for every x at or below knots[0], and
\* values[-1] for every x at or above knots[-1] that is above knots[0] (an x
\* equal to both ends takes the first branch and returns values[0]).
C7_BoundaryValues ==
  Evaluated =>
    /\ ret.status = "return"
    /\ ret.args <= mf.input_values[1] => ret.value = mf.membership_values[1]
    /\ (ret.args >= LastKnot /\ ret.args > mf.input_values[1]) =>
         ret.value = mf.membership_values[Len(mf.membership_values)]

\* an evaluation at a repeated last knot above the first knot, where the two
\* end values differ
C7_Witness ==
  /\ Evaluated
  /\ Len(mf.input_values) = 3
  /\ mf.input_values[2] = LastKnot
  /\ ret.args = LastKnot
  /\ ret.args > mf.input_values[1]
  /\ mf.membership_values[1] # mf.membership_values[3]
  /\ ret.value = mf.membership_values[3]

\* C8 as stated: evaluate(knots[i]) == values[i] for every index i, duplicate
\* knots permitted.
C8_Original ==
  Evaluated =>
    \A i \in DOMAIN mf.input_values :
      mf.input_values[i] = ret.args =>
        ret.status = "return" /\ ret.value = mf.membership_values[i]

\* C8 amended: evaluate(knots[i]) == values[i] for every index i whose knot
\* is not repeated at another index.
C8_KnotValues ==
  Evaluated =>
    \A i \in DOMAIN mf.input_values :
      (/\ mf.input_values[i] = ret.args
       /\ \A j \in DOMAIN mf.input_values :
            mf.input_values[j] = mf.input_values[i] => j = i) =>
        ret.status = "return" /\ ret.value = mf.membership_values[i]

\* an evaluation at an interior knot of three distinct knots whose value
\* differs from both neighbours'
C8_Witness ==
  /\ Evaluated
  /\ Len(mf.input_values) = 3
  /\ mf.input_values[1] < mf.input_values[2]
  /\ mf.input_values[2] < mf.input_values[3]
  /\ ret.args = mf.input_values[2]
  /\ mf.membership_values[2] # mf.membership_values[1]
  /\ mf.membership_values[2] # mf.membership_values[3]
  /\ ret.value = mf.membership_values[2]

AllInUnit(values) == \A i \in DOMAIN values : InUnit(values[i])

\* the segment of x strictly inside the knots: the smallest index whose knot
\* is at or beyond x
Bracket(knots, x) ==
  CHOOSE j \in DOMAIN knots :
    /\ x <= knots[j]
    /\ \A h \in DOMAIN knots : x <= knots[h] => j <= h

\* the body of C9: the result is a degree in [0,1], and strictly inside the
\* knots it lies between the values at the two bracketing knots
C9_Body ==
  /\ ret.status = "return"
  /\ InUnit(ret.value)
  /\ (mf.input_values[1] < ret.args /\ ret.args < LastKnot) =>
       LET j == Bracket(mf.input_values, ret.args)
       IN  Between(ret.value, mf.membership_values[j-1], mf.membership_values[j])

\* C9 as stated: for every successfully constructed membership function
\* whose values all lie in [0,1] and every x, evaluate(x) lies in [0,1] and,
\* strictly inside the knots, between the values at the bracketing knots.
C9_Original ==
  (ret.op = "__call__" /\ AllInUnit(mf.membership_values)) => C9_Body

\* C9 amended: the same for every successfully constructed membership
\* function with at least one knot.
C9_ResultInRange ==
  (Evaluated /\ AllInUnit(mf.membership_values)) => C9_Body

\* an interpolated result strictly between two different bracketing values
C9_Witness ==
  /\ Evaluated
  /\ mf.input_values[1] < ret.args
  /\ ret.args < LastKnot
  /\ LET j == Bracket(mf.input_values, ret.args)
     IN  /\ RLt(mf.membership_values[j-1], ret.value)
         /\ RLt(ret.value, mf.membership_values[j])

\* the call was at an x strictly between the first and the last knot, where
\* __call__ runs its knot search
Searched ==
  /\ Evaluated
  /\ mf.input_values[1] < ret.args
  /\ ret.args < LastKnot

\* C15: on a membership function with at least one knot, duplicate adjacent
\* knots included, every evaluate(x) returns; where it searches, the search
\* stops at an index i with 1 <= i <= len(knots)-1 (2..Len here), the
\* smallest index with x <= knots[i], and knots[i-1] < x, so the denominator
\* knots[i] - knots[i-1] is not zero.
C15_KnotSearchSafe ==
  /\ Evaluated => ret.status = "return"
  /\ Searched =>
       LET i == KnotSearch(mf.input_values, ret.args, 2)
       IN  /\ 2 <= i
           /\ i <= Len(mf.input_values)
           /\ i = Bracket(mf.input_values, ret.args)
           /\ mf.input_values[i-1] < ret.args
           /\ mf.input_values[i] - mf.input_values[i-1] # 0

\* a search that passes a repeated first knot and stops at the last of three
C15_Witness ==
  /\ Searched
  /\ Len(mf.input_values) = 3
  /\ mf.input_values[1] = mf.input_values[2]
  /\ mf.input_values[2] < ret.args
  /\ KnotSearch(mf.input_values, ret.args, 2) = 3
  /\ ret.status = "return"

\* =================================================================
\* Properties of a linguistic variable on its own (SpecLV)
\* =================================================================
Trapezoids == {n \in DOMAIN lvs : lvs[n].class = "LinguisticVariable"}

\* C5: a trapezoid variable built from 2k transitions holds exactly k+1
\* named values; from [t0,t1,t2,t3] and names [low, mid, high] they are
\* low = ([t0,t1],[1,0]), mid = ([t0,t1,t2,t3],[0,1,1,0]) and
\* high = ([t2,t3],[0,1]); the Speed variable of the notebook's test holds
\* slow, normal and fast over 20, 40, 60, 80.
C5_TrapezoidConstruction ==
  \A n \in Trapezoids :
    LET v == lvs[n]
        t == v.transitions
        k == Len(t) \div 2
        f(i) == v.membership_functions[v.level_names[i]]
    IN  /\ Len(t) = 2 * k
        /\ Len(v.level_names) = k + 1
        /\ Cardinality(DOMAIN v.membership_functions) = k + 1
        /\ DOMAIN v.membership_functions = Range(v.level_names)
        /\ Len(t) = 4 =>
             /\ f(1) = FreeShapeMF(<<t[1], t[2]>>, <<One, Zero>>)
             /\ f(2) = FreeShapeMF(<<t[1], t[2], t[3], t[4]>>,
                                   <<Zero, One, One, Zero>>)
             /\ f(3) = FreeShapeMF(<<t[3], t[4]>>, <<Zero, One>>)
        /\ v.name = "Speed" =>
             v.membership_functions =
               [nm \in {"slow", "normal", "fast"} |->
                  CASE nm = "slow" ->
                         FreeShapeMF(<<20, 40>>, <<One, Zero>>)
                    [] nm = "normal" ->
                         FreeShapeMF(<<20, 40, 60, 80>>, <<Zero, One, One, Zero>>)
                    [] nm = "fast" ->
                         FreeShapeMF(<<60, 80>>, <<Zero, One>>)]

\* the Speed variable of the notebook's test, constructed with its three
\* values
C5_Witness ==
  /\ DOMAIN lvs = {"Speed"}
  /\ lvs["Speed"].class = "LinguisticVariable"
  /\ lvs["Speed"].transitions = <<20, 40, 60, 80>>
  /\ lvs["Speed"].level_names = <<"slow", "normal", "fast">>
  /\ lvs["Speed"].membership_functions["normal"].input_values
       = <<20, 40, 60, 80>>

\* C6: fuzzify(x) returns a mapping whose keys are exactly the variable's
\* value-names, each entry the value's membership function evaluated at x;
\* afterwards input_value is x and membership_values is the returned
\* mapping.  On the Speed variable fuzzify(70) returns slow 0, normal 0.5,
\* fast 0.5.
C6_Fuzzify ==
  ret.op = "fuzzify" =>
    LET v == lvs[ret.self]
        x == ret.args
    IN  /\ ret.status = "return"
        /\ DOMAIN ret.value = Range(v.level_names)
        /\ \A nm \in DOMAIN ret.value :
             /\ MFCall(v.membership_functions[nm], x).status = "return"
             /\ ret.value[nm] = MFCall(v.membership_functions[nm], x).value
        /\ v.input_value = Some(x)
        /\ v.membership_values = ret.value
        /\ (v.name = "Speed" /\ x = 70) =>
             ret.value = [nm \in {"slow", "normal", "fast"} |->
                            IF nm = "slow" THEN Zero ELSE Half]

\* speed.fuzzify(70) has returned
C6_Witness ==
  /\ ret.op = "fuzzify"
  /\ ret.self = "Speed"
  /\ ret.args = 70
  /\ ret.value["normal"] = Half

\* the last call was fuzzify(x) on a trapezoid variable, x in [v_min, v_max]
TrapezoidFuzzified ==
  /\ ret.op = "fuzzify"
  /\ lvs[ret.self].class = "LinguisticVariable"
  /\ lvs[ret.self].v_min <= ret.args
  /\ ret.args <= lvs[ret.self].v_max

\* the sum of the degrees fuzzify returned, one per value of the variable
DegreeSum ==
  LET names == lvs[ret.self].level_names
  IN  SeqSum([i \in DOMAIN names |-> ret.value[names[i]]])

\* x is a repeated transition point that ends one value and starts the next
\* (t[2j] = t[2j+1] = x for a pair j >= 1, counting pairs from 0) and lies
\* above the start of the pair before it
JumpAbove(t, x) ==
  \E j \in 1..((Len(t) \div 2) - 1) :
    /\ t[2*j + 1] = x
    /\ t[2*j + 2] = x
    /\ t[2*j - 1] < x

\* C17 as stated: for a trapezoid variable built from any accepted
\* transitions (repeated points allowed) and every x in [v_min, v_max], the
\* degrees returned by fuzzify(x) sum to exactly 1.
C17_Original ==
  TrapezoidFuzzified => (ret.status = "return" /\ DegreeSum = One)

\* C17 amended: the degrees returned by fuzzify(x) sum to exactly 1, except
\* where x is a repeated transition point of a pair other than the first
\* that lies above the start of the pair before it: there every degree is 0.
C17_DegreesSum ==
  TrapezoidFuzzified =>
    /\ ret.status = "return"
    /\ DegreeSum = IF JumpAbove(lvs[ret.self].transitions, ret.args)
                   THEN Zero ELSE One
    /\ JumpAbove(lvs[ret.self].transitions, ret.args) =>
         \A nm \in DOMAIN ret.value : ret.value[nm] = Zero

\* a variable of four values fuzzified half-way down the first ramp: two
\* neighbouring values share the degree
C17_Witness ==
  /\ TrapezoidFuzzified
  /\ Len(lvs[ret.self].transitions) = 6
  /\ Len(lvs[ret.self].level_names) = 4
  /\ ret.value[lvs[ret.self].level_names[1]] = Half
  /\ ret.value[lvs[ret.self].level_names[2]] = Half
  /\ DegreeSum = One

\* =================================================================
\* Properties of a rule (Spec)
\* =================================================================
\* the last call was fr.compute_antecedent_activation(ret.args)
AntecedentComputed == ret.op = "compute_antecedent_activation"

\* the last call was fr.compute_consequent_activation()
ConsequentComputed == ret.op = "compute_consequent_activation"

\* the degree of a clause's value at input x
ClauseDegree(c, x) ==
  MFCall(lvs[c.var].membership_functions[c.value], x).value

\* the reductions of the operator table, over a non-empty list d
TableSum(d) == SeqSum(d)

TableProduct(d) == SeqProd(d)

TableMin(d) == CHOOSE m \in Range(d) : \A y \in Range(d) : RLe(m, y)

TableMax(d) == CHOOSE m \in Range(d) : \A y \in Range(d) : RLe(y, m)

TableReduction(operation, d) ==
  CASE operation = "AND_min" -> TableMin(d)
    [] operation = "AND_prod" -> TableProduct(d)
    [] operation = "AND_boundprod" ->
         IF RLe(One, TableSum(d)) THEN RSub(TableSum(d), One) ELSE Zero
    [] operation = "OR_max" -> TableMax(d)
    [] operation = "OR_probsum" -> RSub(TableSum(d), TableProduct(d))
    [] operation = "OR_boundsum" ->
         IF RLe(TableSum(d), One) THEN TableSum(d) ELSE One

\* the clauses of a rule whose variable's name is a key of inputs, in order
PresentClauses(rule, inputs) ==
  LET present(c) == lvs[c.var].name \in DOMAIN inputs
  IN  SelectSeq(rule.antecedent, present)

\* C1: a clause is skipped if and only if inputs has no entry for its
\* variable's name: every clause whose variable is a key of inputs, whatever
\* the input (0 included), has its variable fuzzified at that input and
\* contributes its degree to the reduction.
C1_PresentClausesContribute ==
  AntecedentComputed =>
    LET rule    == rules[ret.self]
        inputs  == ret.args
        present == PresentClauses(rule, inputs)
        degrees == [i \in DOMAIN present |->
                      ClauseDegree(present[i], inputs[lvs[present[i].var].name])]
    IN  present # <<>> =>
          /\ ret.status = "return"
          /\ ret.value = TableReduction(rule.operation, degrees)
          /\ \A i \in DOMAIN present :
               lvs[present[i].var].input_value
                 = Some(inputs[lvs[present[i].var].name])

\* C2: with the PROD implication compute_consequent_activation succeeds and
\* returns, and stores, the curve antecedent_activation * curve[i] over the
\* consequent variable's domain samples.
C2_ProdImplication ==
  (ConsequentComputed /\ rules[ret.self].implication = "PROD") =>
    LET rule == rules[ret.self]
        v    == lvs[rule.consequent.var]
    IN  /\ ret.status = "return"
        /\ DOMAIN ret.value = DOMAIN v.input_values
        /\ \A i \in DOMAIN v.input_values :
             ret.value[i] = RMul(rule.antecedent_activation,
                                 ClauseDegree(rule.consequent, v.input_values[i]))
        /\ rule.consequent_activation = ret.value

\* the list of degrees the call collected (the clauses it did not skip)
Collected ==
  AntecedentLoop(rules[ret.self].antecedent, ret.args, LoopStart(lvs), 1).temp

\* C3: for every operator and every non-empty list of collected degrees the
\* call returns the table's reduction of them, and antecedent_activation is
\* the returned value.
C3_TableReduction ==
  (AntecedentComputed /\ Collected # <<>>) =>
    /\ ret.status = "return"
    /\ ret.value = TableReduction(rules[ret.self].operation, Collected)
    /\ rules[ret.self].antecedent_activation = ret.value

\* two collected degrees whose bounded product is strictly between 0 and the
\* smaller degree, replacing the activation of construction
C3_Witness ==
  /\ AntecedentComputed
  /\ rules[ret.self].operation = "AND_boundprod"
  /\ Len(Collected) = 2
  /\ RLt(Zero, ret.value)
  /\ RLt(ret.value, TableMin(Collected))
  /\ rules[ret.self].antecedent_activation = ret.value

\* C4: compute_antecedent_activation never fails because of missing inputs:
\* for every operator and every inputs mapping the call returns.
C4_NeverFails == AntecedentComputed => ret.status = "return"

\* C10: with the MIN implication compute_consequent_activation returns, and
\* stores, one entry per domain sample of the consequent variable, entry i
\* being min(antecedent_activation, curve[i]), so at most both of them.
C10_MinImplication ==
  (ConsequentComputed /\ rules[ret.self].implication = "MIN") =>
    LET rule == rules[ret.self]
        v    == lvs[rule.consequent.var]
        a    == rule.antecedent_activation
    IN  /\ ret.status = "return"
        /\ DOMAIN ret.value = DOMAIN v.input_values
        /\ \A i \in DOMAIN v.input_values :
             LET c == ClauseDegree(rule.consequent, v.input_values[i])
             IN  /\ ret.value[i] \in {a, c}
                 /\ RLe(ret.value[i], a)
                 /\ RLe(ret.value[i], c)
        /\ rule.consequent_activation = ret.value

\* a MIN curve that is cut by the activation at one sample and follows the
\* membership curve below it at another
C10_Witness ==
  /\ ConsequentComputed
  /\ rules[ret.self].implication = "MIN"
  /\ ret.status = "return"
  /\ LET rule == rules[ret.self]
         v    == lvs[rule.consequent.var]
         a    == rule.antecedent_activation
     IN  /\ \E i \in DOMAIN v.input_values :
               /\ ret.value[i] = a
               /\ RLt(a, ClauseDegree(rule.consequent, v.input_values[i]))
         /\ \E i \in DOMAIN v.input_values :
               RLt(ret.value[i], a)

\* a rule as its constructor leaves it: activation 0.0 and one zero per
\* domain sample of the consequent variable
ZeroCurve(rule) ==
  [i \in DOMAIN lvs[rule.consequent.var].input_values |-> Zero]

Fresh(rule) ==
  /\ rule.antecedent_activation = Zero
  /\ rule.consequent_activation = ZeroCurve(rule)

\* C11: a newly constructed rule has antecedent_activation 0.0 and an
\* all-zero consequent_activation with one entry per domain sample of the
\* consequent variable; compute_consequent_activation() on such a rule, for
\* MIN and for PROD, returns (and stores) an all-zero curve of that length.
C11_DefaultActivation ==
  /\ [](ret = NotCalled => \A id \in DOMAIN rules : Fresh(rules[id]))
  /\ [][\A id \in DOMAIN rules :
          (/\ Fresh(rules[id])
           /\ ret'.op = "compute_consequent_activation"
           /\ ret'.self = id) =>
            /\ ret'.status = "return"
            /\ ret'.value = ZeroCurve(rules[id])
            /\ rules'[id].consequent_activation = ZeroCurve(rules[id])]_vars

\* C16: in every reachable state antecedent_activation lies in [0,1], for
\* every operator, every antecedent and every inputs mapping, the ones that
\* leave some or all clauses skipped included (every membership value of the
\* variables lies in [0,1]).
C16_ActivationInUnit ==
  \A id \in DOMAIN rules : InUnit(rules[id].antecedent_activation)

\* =================================================================
\* Properties of a reduction on its own (SpecOp)
\* =================================================================
\* the last call reduced the list x with operation
Reduced(operation, x) == ret.self = operation /\ ret.args = x

\* C12 as stated: AND_MIN([0.3,0.7]) == 0.3; OR_MAX([0.3,0.7]) == 0.7;
\* AND_BOUNDED_PRODUCT([0.6,0.6]) == 0.2; OR_BOUNDED_SUM([0.6,0.6]) == 1.0;
\* OR_PROBABILISTIC_SUM([0.5,0.5]) == 0.5.
C12_Original ==
  /\ Reduced("AND_min", <<Rat(3, 10), Rat(7, 10)>>) =>
       ret.status = "return" /\ ret.value = Rat(3, 10)
  /\ Reduced("OR_max", <<Rat(3, 10), Rat(7, 10)>>) =>
       ret.status = "return" /\ ret.value = Rat(7, 10)
  /\ Reduced("AND_boundprod", <<Rat(6, 10), Rat(6, 10)>>) =>
       ret.status = "return" /\ ret.value = Rat(2, 10)
  /\ Reduced("OR_boundsum", <<Rat(6, 10), Rat(6, 10)>>) =>
       ret.status = "return" /\ ret.value = One
  /\ Reduced("OR_probsum", <<Half, Half>>) =>
       ret.status = "return" /\ ret.value = Half

\* C12 amended: AND_MIN([0.3,0.7]) is 0.3; OR_MAX([0.3,0.7]) is 0.7;
\* AND_BOUNDED_PRODUCT([0.6,0.6]) is 0.2 (in exact arithmetic);
\* OR_BOUNDED_SUM([0.6,0.6]) is 1.0; OR_PROBABILISTIC_SUM([0.5,0.5]) is 0.75.
C12_ReductionIdentities ==
  /\ Reduced("AND_min", <<Rat(3, 10), Rat(7, 10)>>) =>
       ret.status = "return" /\ ret.value = Rat(3, 10)
  /\ Reduced("OR_max", <<Rat(3, 10), Rat(7, 10)>>) =>
       ret.status = "return" /\ ret.value = Rat(7, 10)
  /\ Reduced("AND_boundprod", <<Rat(6, 10), Rat(6, 10)>>) =>
       ret.status = "return" /\ ret.value = Rat(2, 10)
  /\ Reduced("OR_boundsum", <<Rat(6, 10), Rat(6, 10)>>) =>
       ret.status = "return" /\ ret.value = One
  /\ Reduced("OR_probsum", <<Half, Half>>) =>
       ret.status = "return" /\ ret.value = Rat(3, 4)

\* the probabilistic sum of 0.5 and 0.5 has been computed
C12_Witness ==
  /\ Reduced("OR_probsum", <<Half, Half>>)
  /\ ret.status = "return"
  /\ ret.value = Rat(3, 4)

\* =================================================================
\* Properties of the unconstrained constructor (SpecNC)
\* =================================================================
\* the names the claim gives the values of n functions
ClaimedNames(level_names, n) ==
  IF level_names.kind = "list" THEN level_names.l
  ELSE GeneratedNames(NamesAsList(level_names)[1], n)

\* C14: constructing an unconstrained variable from n >= 1 membership
\* functions fails when a list of names has another length than n, and
\* otherwise succeeds with exactly n linguistic values, the i-th name mapped
\* to the i-th function: a full list of names (of any length, one included)
\* is used as given; a stem, or no names, gives the generated names
\* stem_level_0, stem_level_1, ...
C14_NamedValues ==
  (ret.self = "NonConstrainedLinguisticVariable"
     /\ Len(ret.args.membership_functions) >= 1) =>
    LET mfs   == ret.args.membership_functions
        n     == Len(mfs)
        names == ClaimedNames(ret.args.level_names, n)
    IN  IF Len(names) # n THEN ret.status = "raise"
        ELSE /\ ret.status = "return"
             /\ ret.value.level_names = names
             /\ DOMAIN ret.value.membership_functions = Range(names)
             /\ Cardinality(DOMAIN ret.value.membership_functions) = n
             /\ \A i \in 1..n : ret.value.membership_functions[names[i]] = mfs[i]

\* =================================================================
\* Properties of rules and variables used together (SpecShared)
\* =================================================================
\* the step repeats the call of the step before it: the same operation on
\* the same object with the same argument
RepeatsCall ==
  /\ ret.op \in {"fuzzify", "compute_antecedent_activation"}
  /\ ret'.op = ret.op
  /\ ret'.self = ret.self
  /\ ret'.args = ret.args

\* C13: a fuzzify(x) that directly follows a fuzzify(x) on the same variable
\* has the same outcome (an equal mapping) and leaves the variable, and
\* everything else, as the first call left it; a
\* compute_antecedent_activation(inputs) that directly follows one on the same
\* rule with the same inputs has the same outcome (the same scalar, or the
\* same exception) and leaves the rule and the variables as the first call
\* left them.
C13_Idempotence ==
  [][RepeatsCall =>
       /\ ret'.status = ret.status
       /\ ret'.value = ret.value
       /\ lvs' = lvs
       /\ rules' = rules]_vars

\* fr_1.compute_antecedent_activation has returned the reduction of two
\* collected degrees, and calling it again with the same inputs gives this
\* very state
C13_Witness ==
  /\ AntecedentComputed
  /\ ret.self = "fr_1"
  /\ ret.status = "return"
  /\ Len(Collected) = 2
  /\ RLt(Zero, ret.value)
  /\ LET again == ComputeAntecedentActivation(rules["fr_1"], lvs, ret.args)
     IN  /\ again.rule = rules["fr_1"]
         /\ again.lvs = lvs
         /\ again.ret.status = "return"
         /\ again.ret.value = ret.value

\* the variables of the clauses of rule that inputs does not leave skipped
FuzzifiedVars(rule, inputs) ==
  {rule.antecedent[i].var : i \in
     {k \in DOMAIN rule.antecedent :
        Truthy(DictGet(inputs, lvs[rule.antecedent[k].var].name))}}

\* the outcomes a and b of compute_consequent_activation are the same: the
\* same curve returned and stored, or the same exception
SameConsequentOutcome(a, b) ==
  /\ a.ret.status = b.ret.status
  /\ a.ret.value = b.ret.value
  /\ a.rule.consequent_activation = b.rule.consequent_activation

\* C18: (1) what R.compute_consequent_activation() returns depends on R
\* alone: in every state it is what it would be with the variables as they
\* were constructed, whatever has been fuzzified since; (2) a step that is
\* not a call on rule R (a fuzzify on any variable, a call on another rule)
\* leaves R as it is, antecedent_activation and consequent_activation
\* included; (3) a step R.compute_antecedent_activation(inputs) changes, of
\* R, only antecedent_activation, and of the variables only input_value and
\* membership_values of the variables of its non-skipped clauses.
C18_Isolation ==
  /\ [](\A R \in DOMAIN rules :
          SameConsequentOutcome(ComputeConsequentActivation(rules[R], lvs),
                                ComputeConsequentActivation(rules[R], World)))
  /\ [][\A R \in DOMAIN rules :
          /\ ret'.self # R => rules'[R] = rules[R]
          /\ (ret'.self = R /\ ret'.op = "compute_antecedent_activation") =>
               /\ rules'[R] = [rules[R] EXCEPT !.antecedent_activation =
                                                 rules'[R].antecedent_activation]
               /\ \A n \in DOMAIN lvs :
                    /\ lvs'[n] = [lvs[n] EXCEPT
                                    !.input_value = lvs'[n].input_value,
                                    !.membership_values = lvs'[n].membership_values]
                    /\ n \notin FuzzifiedVars(rules[R], ret'.args) =>
                         lvs'[n] = lvs[n]]_vars

\* fr_2 has computed its activation on the shared variable sunshine after
\* fr_1 had computed a different one from temperature, which fr_1 still holds
C18_Witness ==
  /\ AntecedentComputed
  /\ ret.self = "fr_2"
  /\ ret.status = "return"
  /\ "sunshine" \in DOMAIN ret.args
  /\ lvs["sunshine"].input_value = Some(ret.args["sunshine"])
  /\ lvs["temperature"].input_value # None
  /\ rules["fr_1"].antecedent_activation # Zero
  /\ rules["fr_1"].antecedent_activation # ret.value
  /\ rules["fr_2"].antecedent_activation = ret.value

====
